---- MODULE Spec2Model ----
(***************************************************************************)
(* Market-data resilience layer of the portfolio backend: the sliding      *)
(* window rate limiter (backend/app/utils/rate_limit.py), the in-memory    *)
(* rate-limit middleware (backend/app/middleware/rate_limit.py), the       *)
(* Redis cache service (backend/app/services/cache_service.py), the       *)
(* market data service with its provider fallback                         *)
(* (backend/app/services/market_service.py) and the price endpoint        *)
(* (backend/app/api/v1/market.py).                                         *)
(*                                                                         *)
(* Time is counted in ticks; one second is TicksPerSec ticks, so that the  *)
(* sub-second part of datetime.now() / time.time() is visible.             *)
(***************************************************************************)
EXTENDS Integers, Sequences, FiniteSets, TLC

\* ------------------------------------------------------------------ bounds
\* clock resolution: ticks per second
TicksPerSec == 2
\* last instant of the clock, in ticks
MaxTime == 7
\* largest max_attempts a RateLimiter is constructed with
MaxLimit == 2
\* largest time_window (seconds) a RateLimiter is constructed with
MaxWindow == 2
\* largest advance of the clock between two steps, in ticks
MaxStep == 2

\* last instant of the clock while callers run concurrently, in ticks
MaxRaceTime == 2

\* bucket keys handed to RateLimiter.is_allowed
Keys == {"login:ip1", "api:ip1"}

\* the bucket the generic limiter is exercised on
FixedKey == "login:ip1"

\* concurrent callers of RateLimiter.is_allowed (threads of the request thread pool)
Callers == {1, 2}

\* redis_client.expire(key, self.time_window + 60): the buffer, in seconds
ExpireBuffer == 60

\* the pre-configured limiters of utils/rate_limit.py
login_limiter == [max_attempts |-> 5, time_window |-> 300]

api_limiter == [max_attempts |-> 100, time_window |-> 60]

\* identities the check functions are called for (identifier or client IP)
Identities == {"ip1"}

\* RateLimitMiddleware.__init__: the rate limit configuration
login_rate_limit == 5

login_window == 900

general_rate_limit == 100

general_window == 60

\* client addresses seen by the middleware
IPs == {"ip1"}

\* the path of the login endpoint
LoginPath == "/api/v1/auth/login"

\* the requests a client sends: path and method
Requests ==
    {[path |-> LoginPath, method |-> "POST"], [path |-> LoginPath, method |-> "GET"],
     [path |-> "/api/v1/users/me", method |-> "GET"], [path |-> "/health", method |-> "GET"]}

\* the endpoint labels a request is recorded under
Endpoints == {LoginPath, "general"}

\* CacheService.__init__(default_ttl=300), in seconds
default_ttl == 300

\* a key a dict does not have
Absent == <<"<absent>">>

\* symbols handed to the cache, as strings of characters
Symbols == {<<"a">>, <<"A">>, <<"b">>}

\* symbols of the runs about the key function: a symbol in both letter cases,
\* another symbol, and a symbol that spells "symbol:source" itself
KeySymbols == {<<"a">>, <<"A">>, <<"b">>, <<"a", ":", "y">>}

\* symbols of the runs about invalidation: a symbol, a longer symbol that starts
\* with the same letters, and an unrelated one
InvalidateSymbols == {<<"a">>, <<"a", "b">>, <<"b">>}

\* sources handed to the cache; <<>> is a missing (None or empty) source
Sources == {<<>>, <<"y">>}

\* ttl arguments, in seconds; 0 is a missing ttl (None)
Ttls == {0, 1}

\* the quote dicts handed to the cache: a provider quote carrying the symbol as
\* the caller wrote it, and a quote holding a datetime object, which json.dumps
\* cannot encode
Quotes ==
    {[price |-> 1, symbol |-> <<"a">>, source |-> Absent, cached_at |-> -1,
      timestamp |-> "2024-01-02"],
     [price |-> 2, symbol |-> Absent, source |-> Absent, cached_at |-> -1,
      timestamp |-> "datetime"]}

\* the db arguments: no session (a working session leaves the cache the same
\* way), and a session whose commit and rollback both raise
Sessions == {"none", "broken"}

\* the clock of the cache runs advances by these many seconds
CacheSteps == {1, default_ttl}

\* last instant of the clock of the cache runs, in seconds
CacheHorizon == 300

\* the clock of the cache runs takes one-second steps only during this many
\* seconds after each multiple of default_ttl
CacheShortSteps == 1

\* longest batch handed to bulk_cache_update
MaxBatch == 2

\* longest list of symbols handed to get_bulk_stock_prices
MaxSymbols == 2

\* longest batch of the runs that make bulk updates only
MaxBulkBatch == 3

\* most cache operations of one run, the construction not counted
MaxCacheOps == 3

\* the number of job runs the scheduler starts
MaxRuns == 2

\* the clock of the policy and middleware runs advances by these many seconds
PolicySteps == {general_window, login_limiter.time_window}

MwSteps == {general_window, login_window}

\* the clock of the middleware runs advances by general_window only this many
\* times in a row after the start or after an advance by login_window
MwShortSteps == 1

\* last instant of the clock of the policy and middleware runs, in seconds
PolicyHorizon == 360

MwHorizon == 960

VARIABLES
    now,              \* the wall clock, in ticks (datetime.now(), time.time())
    limiter,          \* the RateLimiter under test: [max_attempts, time_window (s)]
    REDIS_AVAILABLE,  \* module flag set once at import time
    redis_up,         \* whether the Redis server answers at this moment
    memory_store,     \* _memory_store: key -> list of datetimes
    redis_zset,       \* Redis sorted sets rate_limit:{key}: key -> set of scores
    redis_expire,     \* Redis key expiry deadline of rate_limit:{key}, -1 = none
    result,           \* what the last call of is_allowed returned (or raised)
    admitted,         \* history: key -> instants of the admitted calls that were
                      \* within the trailing window of the last admitted one
    pc,               \* caller -> the statement of _redis_check/_memory_check it is at
    local,            \* caller -> its local variables (key, now, bucket read)
    requests,         \* RateLimitMiddleware.requests: ip -> its (timestamp, endpoint) list
    response,         \* what the last call of RateLimitMiddleware.dispatch returned
    mw_admitted,      \* history: ip -> instants of the admitted login requests less
                      \* than login_window away from the last admitted one
    redis_client,     \* CacheService.redis_client: "unset" before construction,
                      \* "client" or "none"
    backend,          \* the cache's Redis server: "up", "refused" or "timeout"
    ttl_strict,       \* whether the backend hides an entry whose TTL has elapsed
    cache_data,       \* the keyspace of the cache backend: key -> entry
    cache_result,     \* what the cache operation that has just ended returned (or
                      \* raised); forgotten once the clock or the backend moves
    cache_ops,        \* the number of cache operations made so far
    quote_result,     \* what the last get_stock_price (or price endpoint) returned
                      \* or raised, with the provider calls it made
    prices,           \* what the last get_bulk_stock_prices returned
    jobs              \* the scheduler of BackgroundTaskService and the job that is
                      \* running on its event loop, with what the run has done

storeVars == <<memory_store, redis_zset, redis_expire>>

limiterVars == <<limiter, REDIS_AVAILABLE, redis_up, storeVars, result, admitted>>

callerVars == <<pc, local>>

mwVars == <<requests, response, mw_admitted>>

cacheVars == <<redis_client, backend, ttl_strict, cache_data, cache_result, cache_ops>>

marketVars == <<quote_result, prices>>

jobVars == <<jobs>>

\* what the rate limiter of utils/rate_limit.py never touches
outside == <<mwVars, cacheVars, marketVars, jobVars>>

vars == <<now, limiterVars, callerVars, mwVars, cacheVars, marketVars, jobVars>>

\* ---------------------------------------------------------------- helpers
Max(a, b) == IF a >= b THEN a ELSE b

Min(a, b) == IF a <= b THEN a ELSE b

\* min() of a non-empty set of instants
SetMin(S) == CHOOSE x \in S : \A y \in S : x <= y

\* max() of a non-empty set of instants
SetMax(S) == CHOOSE x \in S : \A y \in S : x >= y

\* the elements of a sequence, as a set
Range(s) == {s[i] : i \in 1..Len(s)}

\* timedelta(seconds=w), in ticks
Seconds(w) == w * TicksPerSec

\* int(td.total_seconds()): truncation toward zero of a duration given in ticks
IntTotalSeconds(d) == IF d >= 0 THEN d \div TicksPerSec ELSE -((-d) \div TicksPerSec)

\* ceil of a duration given in ticks, in whole seconds
CeilSeconds(d) == -((-d) \div TicksPerSec)

\* window_start = now - timedelta(seconds=self.time_window)
WindowStart(t, w) == t - Seconds(w)

\* the filter of the list comprehension of _memory_check, and the complement of
\* the score range removed by zremrangebyscore(key, 0, window_start)
FreshInclusive(ts, t, w) == ts >= WindowStart(t, w)

Fresh(ts, t, w) == ts > WindowStart(t, w)

\* _memory_store[key] = [timestamp for timestamp in ... if timestamp > window_start]
PruneList(list, t, w) == SelectSeq(list, LAMBDA ts : Fresh(ts, t, w))

\* zremrangebyscore(key, 0, window_start): scores in [0, window_start] are removed
PruneZset(zset, t, w) == {ts \in zset : Fresh(ts, t, w)}

\* len(bucket) >= self.max_attempts
OverLimitOffByOne(n, limit) == n > limit

OverLimit(n, limit) == n >= limit

\* remaining_seconds = int((oldest + timedelta(seconds=window) - now).total_seconds());
\* the value returned is max(remaining_seconds, 0)
RetryAfter(oldest, t, w) == Max(IntTotalSeconds(oldest + Seconds(w) - t), 0)

\* the sorted set of a key as the server sees it at instant t: a key whose expiry
\* deadline has passed is gone
LiveZset(zset, deadline, t) == IF deadline >= 0 /\ t >= deadline THEN {} ELSE zset

\* a check that appends now to the bucket before it compares the length
MemoryOutcomeRecordingDenial(list, t, lim) ==
    LET bucket == PruneList(list, t, lim.time_window)
    IN  IF OverLimit(Len(bucket), lim.max_attempts)
        THEN [allowed |-> FALSE, bucket |-> Append(bucket, t),
              retry |-> RetryAfter(SetMin(Range(bucket)), t, lim.time_window)]
        ELSE [allowed |-> TRUE, bucket |-> Append(bucket, t), retry |-> -1]

\* the part of _memory_check after now is read: (allowed, retry, new bucket)
MemoryOutcome(list, t, lim) ==
    LET bucket == PruneList(list, t, lim.time_window)
    IN  IF OverLimit(Len(bucket), lim.max_attempts)
        THEN [allowed |-> FALSE, bucket |-> bucket,
              retry |-> RetryAfter(SetMin(Range(bucket)), t, lim.time_window)]
        ELSE [allowed |-> TRUE, bucket |-> Append(bucket, t), retry |-> -1]

\* the part of _redis_check after now is read, all commands answered:
\* (allowed, retry, new sorted set, new expiry deadline)
RedisOutcome(zset, deadline, t, lim) ==
    LET bucket == PruneZset(LiveZset(zset, deadline, t), t, lim.time_window)
        kept   == IF bucket = {} THEN -1 ELSE deadline
    IN  IF OverLimit(Cardinality(bucket), lim.max_attempts)
        THEN [allowed |-> FALSE, bucket |-> bucket, deadline |-> kept,
              retry |-> IF bucket # {}
                        THEN RetryAfter(SetMin(bucket), t, lim.time_window)
                        ELSE lim.time_window]
        ELSE [allowed |-> TRUE, bucket |-> bucket \cup {t},
              deadline |-> t + Seconds(lim.time_window + ExpireBuffer), retry |-> -1]

NoResult == [kind |-> "none", key |-> "", retry |-> -1, at |-> -1, seen |-> 0,
             prev |-> "none"]

\* history bookkeeping: the admitted instants less than a window away from t
InWindow(log, t, w) ==
    SelectSeq(log, LAMBDA ts : t - ts < Seconds(w) /\ ts - t < Seconds(w))

\* history bookkeeping: how many admitted instants lie in the trailing window of t,
\* i.e. with 0 <= t - ts < window
Trailing(log, t, w) ==
    Cardinality({i \in 1..Len(log) : log[i] <= t /\ t - log[i] < Seconds(w)})

\* history bookkeeping: the largest number of admitted instants in one span
\* [a, a + window) of the log
Burst(log, w) ==
    IF log = <<>> THEN 0
    ELSE SetMax({Cardinality({i \in 1..Len(log) :
                                log[i] >= log[j] /\ log[i] - log[j] < Seconds(w)})
                 : j \in 1..Len(log)})

\* the record of a call that returned a decision
Decision(key, allowed, retry, t, w) ==
    [kind |-> IF allowed THEN "allowed" ELSE "denied", key |-> key, retry |-> retry,
     at |-> t, seen |-> Trailing(admitted[key], t, w), prev |-> result.kind]

\* the record of a call that raised (a redis exception left is_allowed)
Raised(key, t) ==
    [kind |-> "error", key |-> key, retry |-> -1, at |-> t, seen |-> 0,
     prev |-> result.kind]

\* the history after a call at t on key
Logged(key, allowed, t, w) ==
    IF allowed THEN [admitted EXCEPT ![key] = Append(InWindow(@, t, w), t)]
    ELSE admitted

NoResponse ==
    [status |-> 0, ip |-> "", endpoint |-> "", at |-> -1, forwarded |-> FALSE,
     limit |-> -1, remaining |-> -1, retry_after |-> -1, seen |-> 0]

NoLocal == [key |-> "", now |-> 0, bucket |-> <<>>, n |-> 0]

\* ------------------------------------------------------- cache helpers
\* str.upper() on one character of the symbols in use
UpperChar(c) ==
    CASE c = "a" -> "A"
      [] c = "b" -> "B"
      [] c = "y" -> "Y"
      [] OTHER -> c

\* str.upper()
Upper(s) == [i \in 1..Len(s) |-> UpperChar(s[i])]

\* the key function without the upper-casing of the symbol
GenerateCacheKeyNoCase(symbol, source) ==
    IF source # <<>>
    THEN <<"market_data:">> \o symbol \o <<":">> \o source
    ELSE <<"market_data:">> \o symbol

\* CacheService._generate_cache_key: "market_data:SYMBOL", followed by ":source"
\* when a source is given
GenerateCacheKey(symbol, source) ==
    IF source # <<>>
    THEN <<"market_data:">> \o Upper(symbol) \o <<":">> \o source
    ELSE <<"market_data:">> \o Upper(symbol)

\* every key the cache can be asked for
CacheKeys ==
    {GenerateCacheKey(s, src) : s \in Symbols \cup KeySymbols \cup InvalidateSymbols,
                                src \in Sources}

\* the glob match of Redis KEYS for patterns of literals and "*"
RECURSIVE Glob(_, _)
Glob(pattern, key) ==
    IF pattern = <<>> THEN key = <<>>
    ELSE IF Head(pattern) = "*"
         THEN \/ Glob(Tail(pattern), key)
              \/ key # <<>> /\ Glob(pattern, Tail(key))
         ELSE /\ key # <<>>
              /\ Head(key) = Head(pattern)
              /\ Glob(Tail(pattern), Tail(key))

\* the patterns a caller may pass to invalidate_cache; <<>> is no pattern
Patterns == {<<>>, <<"market_data:", "*">>}

NoQuote ==
    [price |-> 0, symbol |-> Absent, source |-> Absent, cached_at |-> -1,
     timestamp |-> "absent"]

\* the three assignments cache_market_data makes on the dict before encoding it
Stamp(data, symbol, source, t) ==
    [data EXCEPT !.cached_at = t, !.symbol = Upper(symbol), !.source = source]

\* json.dumps raises TypeError on a datetime object
Serialisable(data) == data.timestamp # "datetime"

\* ttl or self.default_ttl
EffectiveTtl(ttl) == IF ttl # 0 THEN ttl ELSE default_ttl

NoEntry == [present |-> FALSE, text |-> NoQuote, expires |-> -1]

\* the entry SETEX leaves: the encoded dict and the instant the backend drops it
Entry(data, ttl, t) == [present |-> TRUE, text |-> data, expires |-> t + Seconds(ttl)]

Expired(entry, t) == entry.present /\ t >= entry.expires

\* what the backend shows of a key to GET and KEYS
Visible(entry, t) == entry.present /\ (ttl_strict => ~Expired(entry, t))

NoCacheResult ==
    [op |-> "none", symbol |-> <<>>, source |-> <<>>, ok |-> FALSE, value |-> NoQuote,
     expires |-> -1, success |-> 0, failed |-> 0, size |-> 0, deleted |-> 0,
     wellformed |-> 0, keys |-> {}, reachable |-> FALSE, raised |-> FALSE]

\* the module before get_cache_service() has built the service
CacheIdle ==
    /\ redis_client = "unset"
    /\ backend = "up"
    /\ ttl_strict = TRUE
    /\ cache_data = [k \in CacheKeys |-> NoEntry]
    /\ cache_result = NoCacheResult
    /\ cache_ops = 0

\* ------------------------------------------------------ market helpers
\* the providers get_stock_price knows how to call
Providers == {"alpha_vantage", "yahoo"}

\* the provider arguments a caller may pass: the query parameter is not checked
RequestedProviders == Providers \cup {"tcmb"}

\* symbols asked of the market service, as strings cut into pieces
MarketSymbols == {<<"AAPL">>, <<"ZZZZ">>, <<"X", "404">>, <<"A", "429">>}

\* str.lower() on the pieces the messages are made of
LowerPiece(c) ==
    CASE c = "Not Found" -> "not found"
      [] c = "Rate limit" -> "rate limit"
      [] c = "No data found for symbol: " -> "no data found for symbol: "
      [] c = "Too Many Requests. " -> "too many requests. "
      [] c = " Too Many Requests" -> " too many requests"
      [] c = " Client Error: " -> " client error: "
      [] c = "Connection timed out" -> "connection timed out"
      [] c = "Read timed out" -> "read timed out"
      [] c = "AAPL" -> "aapl"
      [] c = "ZZZZ" -> "zzzz"
      [] c = "X" -> "x"
      [] c = "A" -> "a"
      [] OTHER -> c

\* str.lower()
Lower(s) == [i \in 1..Len(s) |-> LowerPiece(s[i])]

\* marker in message, for the markers that are whole pieces of the messages
Contains(message, marker) == \E i \in 1..Len(message) : message[i] = marker

\* whether text holds message as one run of pieces
IsInfix(message, text) ==
    \E i \in 0..(Len(text) - Len(message)) :
        \A j \in 1..Len(message) : text[i + j] = message[j]

\* the ways a provider call can fail: what the provider reports, and the text
\* of the exception that reaches get_stock_price; _get_stock_price_yahoo raises
\* "No data found for symbol: ..." itself when the history is empty
Failures(provider, symbol) ==
    {[kind |-> "RateLimited", message |-> <<"429", " Too Many Requests">>],
     [kind |-> "RateLimited",
      message |-> <<"Too Many Requests. ", "Rate limit", "ed. Try after a while.">>],
     [kind |-> "NotFound", message |-> <<"404", " Client Error: ", "Not Found">>],
     [kind |-> "Unavailable", message |-> <<"Connection timed out">>],
     [kind |-> "Unavailable", message |-> <<"Read timed out">>]}
    \cup (IF provider = "yahoo"
          THEN {[kind |-> "NotFound",
                 message |-> <<"No data found for symbol: ">> \o symbol]}
          ELSE {})

Success == [kind |-> "ok", message |-> <<>>]

\* what each provider would answer for a symbol
Outcomes(symbol) ==
    {o \in [Providers -> {Success} \cup Failures("yahoo", symbol)] :
        \A p \in Providers : o[p] = Success \/ o[p] \in Failures(p, symbol)}

\* the 'provider' entry of the dict a provider returns
ProviderName(provider) == IF provider = "yahoo" THEN "yahoo_finance" ELSE provider

\* providers_to_try with the alternate put first
ProviderChainAlternateFirst(provider, use_fallback) ==
    <<IF provider = "alpha_vantage" THEN "yahoo" ELSE "alpha_vantage", provider>>

\* providers_to_try
ProviderChain(provider, use_fallback) ==
    IF use_fallback
    THEN <<provider, IF provider = "alpha_vantage" THEN "yahoo" ELSE "alpha_vantage">>
    ELSE <<provider>>

\* the rate-limit test, never true
RateLimitMarkedNever(message) == FALSE

RateLimitMarked(message) ==
    Contains(Lower(message), "rate limit") \/ Contains(message, "429")

NotFoundMarked(message) ==
    Contains(Lower(message), "not found") \/ Contains(message, "404")

\* the test that lets a rate-limited provider be passed over, never true
MoreProvidersNever(use_fallback, idx, chain) == FALSE

\* use_fallback and idx < len(providers_to_try) - 1, with idx counted from 1
MoreProviders(use_fallback, idx, chain) == use_fallback /\ idx < Len(chain)

\* is_fallback = idx > 0, always set
IsFallbackAlways(idx) == TRUE

\* is_fallback = idx > 0, with idx counted from 1
IsFallback(idx) == idx > 1

NoQuoteResult ==
    [op |-> "none", symbol |-> <<>>, requested |-> "", use_fallback |-> FALSE,
     kind |-> "none", provider |-> "", is_fallback |-> FALSE, reason |-> <<>>,
     calls |-> <<>>, failures |-> <<>>, status |-> 0]

\* the loop of get_stock_price from position idx on: st carries last_exception
\* and the record of the calls made so far
RECURSIVE TryProviders(_, _, _, _, _)
TryProviders(chain, idx, use_fallback, outcomes, st) ==
    IF idx > Len(chain)
    THEN [st EXCEPT !.kind = "Unavailable", !.provider = "all_providers",
                    !.reason = <<"Could not fetch data from any provider. Last error: ">>
                               \o st.last]
    ELSE IF chain[idx] \notin Providers
         THEN TryProviders(chain, idx + 1, use_fallback, outcomes, st)
         ELSE LET current_provider == chain[idx]
                  outcome == outcomes[current_provider]
                  called == [st EXCEPT !.calls = Append(@, current_provider)]
                  failed == [called EXCEPT
                                !.last = outcome.message,
                                !.failures = Append(@, [provider |-> current_provider,
                                                        kind |-> outcome.kind,
                                                        message |-> outcome.message])]
              IN  IF outcome = Success
                  THEN [called EXCEPT !.kind = "quote",
                                      !.provider = current_provider,
                                      !.is_fallback = IsFallback(idx)]
                  ELSE IF RateLimitMarked(outcome.message)
                       THEN IF MoreProviders(use_fallback, idx, chain)
                            THEN TryProviders(chain, idx + 1, use_fallback, outcomes,
                                              failed)
                            ELSE [failed EXCEPT !.kind = "RateLimited",
                                                !.provider = current_provider]
                       ELSE IF idx = Len(chain)
                            THEN IF NotFoundMarked(outcome.message)
                                 THEN [failed EXCEPT !.kind = "NotFound"]
                                 ELSE [failed EXCEPT
                                          !.kind = "Unavailable",
                                          !.provider = "all_providers",
                                          !.reason =
                                              <<"All providers failed. Last error: ">>
                                              \o outcome.message]
                            ELSE TryProviders(chain, idx + 1, use_fallback, outcomes,
                                              failed)

\* a get_stock_price that returns None when the loop ends without a call
GetStockPriceResultReturningNone(symbol, provider, use_fallback, outcomes) ==
    LET start == [kind |-> "none", provider |-> "", is_fallback |-> FALSE,
                  reason |-> <<>>, calls |-> <<>>, failures |-> <<>>,
                  last |-> <<"None">>]
        end == TryProviders(ProviderChain(provider, use_fallback), 1, use_fallback,
                            outcomes, start)
    IN  [op |-> "get_stock_price", symbol |-> symbol, requested |-> provider,
         use_fallback |-> use_fallback, kind |-> IF end.calls = <<>> THEN "none" ELSE end.kind, provider |-> end.provider,
         is_fallback |-> end.is_fallback, reason |-> end.reason, calls |-> end.calls,
         failures |-> end.failures, status |-> 0]

\* MarketDataService.get_stock_price: what it returns or raises, with the calls
\* it made
GetStockPriceResult(symbol, provider, use_fallback, outcomes) ==
    LET start == [kind |-> "none", provider |-> "", is_fallback |-> FALSE,
                  reason |-> <<>>, calls |-> <<>>, failures |-> <<>>,
                  last |-> <<"None">>]
        end == TryProviders(ProviderChain(provider, use_fallback), 1, use_fallback,
                            outcomes, start)
    IN  [op |-> "get_stock_price", symbol |-> symbol, requested |-> provider,
         use_fallback |-> use_fallback, kind |-> end.kind, provider |-> end.provider,
         is_fallback |-> end.is_fallback, reason |-> end.reason, calls |-> end.calls,
         failures |-> end.failures, status |-> 0]

NoPrices == [symbols |-> <<>>, map |-> <<>>, fetched |-> <<>>]

\* the market service before any call
MarketIdle ==
    /\ quote_result = NoQuoteResult
    /\ prices = NoPrices

\* --------------------------------------------------- scheduler helpers
\* the ids start() registers the cache jobs under: the hot-symbol refresh,
\* the trending refresh and the nightly purge
JobIds == {"fetch_popular_prices", "update_trending", "refresh_cache"}

\* the coroutine each job id is registered with
JobFunction(job) ==
    CASE job = "fetch_popular_prices" -> "fetch_popular_stock_prices"
      [] job = "update_trending" -> "update_trending_stocks"
      [] job = "refresh_cache" -> "refresh_cache"

popular_symbols ==
    <<<<"AAPL">>, <<"GOOGL">>, <<"MSFT">>, <<"AMZN">>, <<"TSLA">>,
      <<"META">>, <<"NVDA">>, <<"JPM">>, <<"V">>, <<"WMT">>>>

\* the names background_tasks.py imports at module level: json is not one
ImportedModules ==
    {"logging", "typing", "datetime", "apscheduler.schedulers.asyncio",
     "apscheduler.triggers.interval", "apscheduler.triggers.cron",
     "app.services.market_service", "app.services.cache_service",
     "app.core.database", "app.models.portfolio"}

\* the exception classes a job body can meet, all subclasses of Exception
Exceptions == {"NameError", "AttributeError", "ConnectionError", "TimeoutError"}

\* an except clause that lets everything but redis.ConnectionError through
CaughtConnectionErrorOnly(exception) == exception = "ConnectionError"

\* except Exception
Caught(exception) == exception \in Exceptions

\* the scheduler and the run in progress on its event loop: the job that was
\* started, the coroutine body it is in and the statement it is at, the
\* prices and the data_list of the body, and what the run has done so far
NoJobs ==
    [scheduler |-> "stopped", job |-> "none", body |-> "none", pc |-> "idle",
     fetched |-> <<>>, data_list |-> <<>>, runs |-> 0, errors |-> {},
     raised |-> FALSE, hot_ok |-> {}, trending_ok |-> {}, written |-> {},
     before |-> {}, reachable |-> TRUE]

\* the module before start_background_tasks()
SchedulerIdle == jobs = NoJobs

\* ------------------------------------------------------------------- Init
StoreInit ==
    /\ memory_store = [k \in Keys |-> <<>>]
    /\ redis_zset = [k \in Keys |-> {}]
    /\ redis_expire = [k \in Keys |-> -1]
    /\ result = NoResult
    /\ admitted = [k \in Keys |-> <<>>]
    /\ pc = [c \in Callers |-> "idle"]
    /\ local = [c \in Callers |-> NoLocal]

\* lines 14-21: REDIS_AVAILABLE is decided once, by the ping at import time
ImportInit ==
    /\ REDIS_AVAILABLE \in BOOLEAN
    /\ redis_up = REDIS_AVAILABLE

\* RateLimitMiddleware.__init__: self.requests = defaultdict(list)
MwInit ==
    /\ requests = [ip \in IPs |-> [e \in Endpoints |-> <<>>]]
    /\ response = NoResponse
    /\ mw_admitted = [ip \in IPs |-> <<>>]

Init ==
    /\ now = 0
    /\ limiter \in [max_attempts : 1..MaxLimit, time_window : 1..MaxWindow]
    /\ ImportInit
    /\ StoreInit
    /\ MwInit
    /\ CacheIdle
    /\ MarketIdle
    /\ SchedulerIdle

\* ---------------------------------------------------------------- actions
\* the clock advances between two calls
Tick ==
    /\ \E d \in 1..MaxStep :
          /\ now + d <= MaxTime
          /\ now' = now + d
    /\ UNCHANGED <<limiterVars, callerVars, outside>>

\* the Redis server becomes unreachable
RedisDown ==
    /\ REDIS_AVAILABLE
    /\ redis_up
    /\ redis_up' = FALSE
    /\ UNCHANGED <<now, limiter, REDIS_AVAILABLE, storeVars, result, admitted, callerVars,
                   outside>>

\* the Redis server is reachable again
RedisUp ==
    /\ REDIS_AVAILABLE
    /\ ~redis_up
    /\ redis_up' = TRUE
    /\ UNCHANGED <<now, limiter, REDIS_AVAILABLE, storeVars, result, admitted, callerVars,
                   outside>>

\* RateLimiter._memory_check(key), run to completion by one caller; the history
\* is kept over the trailing `audit` seconds
MemoryCheck(lim, key, audit) ==
    /\ LET out == MemoryOutcome(memory_store[key], now, lim)
       IN  /\ memory_store' = [memory_store EXCEPT ![key] = out.bucket]
           /\ result' = Decision(key, out.allowed, out.retry, now, audit)
           /\ admitted' = Logged(key, out.allowed, now, audit)
    /\ UNCHANGED <<redis_zset, redis_expire>>

\* RateLimiter._redis_check(key), run to completion by one caller; the first
\* command sent to an unreachable server raises and the exception leaves the call
RedisCheck(lim, key, audit) ==
    IF redis_up
    THEN LET out == RedisOutcome(redis_zset[key], redis_expire[key], now, lim)
         IN  /\ redis_zset' = [redis_zset EXCEPT ![key] = out.bucket]
             /\ redis_expire' = [redis_expire EXCEPT ![key] = out.deadline]
             /\ result' = Decision(key, out.allowed, out.retry, now, audit)
             /\ admitted' = Logged(key, out.allowed, now, audit)
             /\ UNCHANGED memory_store
    ELSE /\ result' = Raised(key, now)
         /\ UNCHANGED <<storeVars, admitted>>

\* the history of a bucket is followed until it exceeds the limit by more than one
Followed(lim, key, audit) ==
    Len(InWindow(admitted[key], now, audit)) <= lim.max_attempts + 1

\* RateLimiter.is_allowed(key)
IsAllowed(lim, key, audit) ==
    /\ Followed(lim, key, audit)
    /\ IF REDIS_AVAILABLE THEN RedisCheck(lim, key, audit) ELSE MemoryCheck(lim, key, audit)
    /\ UNCHANGED <<now, limiter, REDIS_AVAILABLE, redis_up, callerVars, outside>>

Next ==
    \/ Tick
    \/ RedisDown
    \/ RedisUp
    \/ IsAllowed(limiter, FixedKey, limiter.time_window)

Spec == Init /\ [][Next]_vars

\* ------------------------------------------------- concurrent callers
\* A caller runs is_allowed statement by statement; the callers are threads of the
\* request thread pool (the endpoints calling check_api_rate_limit are sync), and
\* every Redis command is one round trip of its own.

raceFrame == <<now, limiter, REDIS_AVAILABLE, redis_up, outside>>

\* a caller returns a decision
Return(c, allowed, retry) ==
    /\ result' = Decision(local[c].key, allowed, retry, local[c].now, limiter.time_window)
    /\ admitted' = Logged(local[c].key, allowed, local[c].now, limiter.time_window)
    /\ pc' = [pc EXCEPT ![c] = "idle"]
    /\ local' = [local EXCEPT ![c] = NoLocal]

\* a Redis command of a caller raises: the exception leaves is_allowed
Raise(c) ==
    /\ result' = Raised(local[c].key, local[c].now)
    /\ pc' = [pc EXCEPT ![c] = "idle"]
    /\ local' = [local EXCEPT ![c] = NoLocal]
    /\ UNCHANGED <<storeVars, admitted>>

\* lines 47-50 and 54-55 / 82-86: the call starts and reads the clock
Enter(c, key) ==
    /\ pc[c] = "idle"
    /\ Followed(limiter, key, limiter.time_window)
    /\ local' = [local EXCEPT ![c] = [key |-> key, now |-> now, bucket |-> <<>>, n |-> 0]]
    /\ pc' = [pc EXCEPT ![c] = IF REDIS_AVAILABLE THEN "zremrangebyscore" ELSE "filter"]
    /\ UNCHANGED <<raceFrame, storeVars, result, admitted>>

\* lines 89-92, right-hand side: the list comprehension reads the bucket
MemoryFilter(c) ==
    /\ pc[c] = "filter"
    /\ local' = [local EXCEPT ![c].bucket =
                     PruneList(memory_store[local[c].key], local[c].now, limiter.time_window)]
    /\ pc' = [pc EXCEPT ![c] = "assign"]
    /\ UNCHANGED <<raceFrame, storeVars, result, admitted>>

\* lines 89-92, the assignment: the filtered list replaces the bucket
MemoryAssign(c) ==
    /\ pc[c] = "assign"
    /\ memory_store' = [memory_store EXCEPT ![local[c].key] = local[c].bucket]
    /\ pc' = [pc EXCEPT ![c] = "len"]
    /\ UNCHANGED <<raceFrame, redis_zset, redis_expire, result, admitted, local>>

\* lines 94-99: the count is compared; over the limit the call returns denied
MemoryLen(c) ==
    /\ pc[c] = "len"
    /\ LET bucket == memory_store[local[c].key]
       IN  IF OverLimit(Len(bucket), limiter.max_attempts)
           THEN /\ Return(c, FALSE, RetryAfter(SetMin(Range(bucket)), local[c].now,
                                               limiter.time_window))
                /\ UNCHANGED storeVars
           ELSE /\ pc' = [pc EXCEPT ![c] = "append"]
                /\ UNCHANGED <<storeVars, result, admitted, local>>
    /\ UNCHANGED raceFrame

\* lines 102-104: the attempt is appended and the call returns allowed
MemoryAppend(c) ==
    /\ pc[c] = "append"
    /\ memory_store' = [memory_store EXCEPT ![local[c].key] = Append(@, local[c].now)]
    /\ Return(c, TRUE, -1)
    /\ UNCHANGED <<raceFrame, redis_zset, redis_expire>>

\* line 58: zremrangebyscore
Zremrangebyscore(c) ==
    /\ pc[c] = "zremrangebyscore"
    /\ IF redis_up
       THEN LET key == local[c].key
                bucket == PruneZset(LiveZset(redis_zset[key], redis_expire[key], now),
                                    local[c].now, limiter.time_window)
            IN  /\ redis_zset' = [redis_zset EXCEPT ![key] = bucket]
                /\ redis_expire' = [redis_expire EXCEPT
                                       ![key] = IF bucket = {} THEN -1 ELSE @]
                /\ pc' = [pc EXCEPT ![c] = "zcard"]
                /\ UNCHANGED <<memory_store, result, admitted, local>>
       ELSE Raise(c)
    /\ UNCHANGED raceFrame

\* lines 61-63: zcard, and the comparison with max_attempts
Zcard(c) ==
    /\ pc[c] = "zcard"
    /\ IF redis_up
       THEN LET key == local[c].key
                n == Cardinality(LiveZset(redis_zset[key], redis_expire[key], now))
            IN  /\ local' = [local EXCEPT ![c].n = n]
                /\ pc' = [pc EXCEPT ![c] = IF OverLimit(n, limiter.max_attempts)
                                          THEN "zrange" ELSE "zadd"]
                /\ UNCHANGED <<storeVars, result, admitted>>
       ELSE Raise(c)
    /\ UNCHANGED raceFrame

\* lines 65-72: zrange of the oldest entry; the call returns denied
Zrange(c) ==
    /\ pc[c] = "zrange"
    /\ IF redis_up
       THEN LET key == local[c].key
                bucket == LiveZset(redis_zset[key], redis_expire[key], now)
            IN  /\ Return(c, FALSE,
                          IF bucket # {}
                          THEN RetryAfter(SetMin(bucket), local[c].now, limiter.time_window)
                          ELSE limiter.time_window)
                /\ UNCHANGED storeVars
       ELSE Raise(c)
    /\ UNCHANGED raceFrame

\* line 75: zadd of the member str(now.timestamp()) with score now.timestamp()
Zadd(c) ==
    /\ pc[c] = "zadd"
    /\ IF redis_up
       THEN LET key == local[c].key
                live == redis_expire[key] < 0 \/ now < redis_expire[key]
            IN  /\ redis_zset' = [redis_zset EXCEPT
                                     ![key] = (IF live THEN @ ELSE {}) \cup {local[c].now}]
                /\ redis_expire' = [redis_expire EXCEPT ![key] = IF live THEN @ ELSE -1]
                /\ pc' = [pc EXCEPT ![c] = "expire"]
                /\ UNCHANGED <<memory_store, result, admitted, local>>
       ELSE Raise(c)
    /\ UNCHANGED raceFrame

\* lines 76-78: expire, and the call returns allowed
Expire(c) ==
    /\ pc[c] = "expire"
    /\ IF redis_up
       THEN /\ redis_expire' = [redis_expire EXCEPT
                                  ![local[c].key] =
                                      now + Seconds(limiter.time_window + ExpireBuffer)]
            /\ Return(c, TRUE, -1)
            /\ UNCHANGED <<memory_store, redis_zset>>
       ELSE Raise(c)
    /\ UNCHANGED raceFrame

RaceTick ==
    /\ now < MaxRaceTime
    /\ now' = now + 1
    /\ UNCHANGED <<limiterVars, callerVars, outside>>

RaceNext ==
    \/ RaceTick
    \/ RedisDown
    \/ RedisUp
    \/ \E c \in Callers :
          \/ Enter(c, FixedKey)
          \/ MemoryFilter(c)
          \/ MemoryAssign(c)
          \/ MemoryLen(c)
          \/ MemoryAppend(c)
          \/ Zremrangebyscore(c)
          \/ Zcard(c)
          \/ Zrange(c)
          \/ Zadd(c)
          \/ Expire(c)

SpecRace == Init /\ [][RaceNext]_vars

\* ------------------------------------------- the pre-configured limiters
\* A run drives one of the two module-level limiters: check_login_rate_limit and
\* check_api_rate_limit work on disjoint keys ("login:..." and "api:...").

PolicyInit ==
    /\ now = 0
    /\ limiter \in {login_limiter, api_limiter}
    /\ ImportInit
    /\ StoreInit
    /\ MwInit
    /\ CacheIdle
    /\ MarketIdle
    /\ SchedulerIdle

PolicyTick ==
    /\ \E d \in PolicySteps :
          /\ now + Seconds(d) <= Seconds(PolicyHorizon)
          /\ now' = now + Seconds(d)
    /\ UNCHANGED <<limiterVars, callerVars, outside>>

\* check_login_rate_limit(request, identifier): login_limiter.is_allowed("login:" + key);
\* a denial is raised as HTTPException 429 carrying remaining_time
CheckLoginRateLimit(identifier) ==
    /\ limiter = login_limiter
    /\ IsAllowed(login_limiter, "login:" \o identifier, login_window)

\* check_api_rate_limit(request, identifier): api_limiter.is_allowed("api:" + key)
CheckApiRateLimit(identifier) ==
    /\ limiter = api_limiter
    /\ IsAllowed(api_limiter, "api:" \o identifier, general_window)

PolicyNext ==
    \/ PolicyTick
    \/ RedisDown
    \/ RedisUp
    \/ \E id \in Identities : CheckLoginRateLimit(id)
    \/ \E id \in Identities : CheckApiRateLimit(id)

SpecPolicy == PolicyInit /\ [][PolicyNext]_vars

\* ------------------------------------------------- RateLimitMiddleware
\* requests[ip] is the list of (timestamp, endpoint) tuples of the source, kept as
\* one list of timestamps per endpoint label: the code only filters the list by
\* age and counts its entries per endpoint, never looking at their interleaving.

\* _clean_old_requests(ip, window): keep the entries with current_time - ts < window,
\* whatever their endpoint
CleanOldRequests(entries, t, window) ==
    [e \in Endpoints |-> SelectSeq(entries[e], LAMBDA ts : t - ts < Seconds(window))]

\* _is_rate_limited, after the cleaning: (is_limited, remaining)
IsRateLimited(entries, endpoint, limit) ==
    [limited |-> Len(entries[endpoint]) >= limit,
     remaining |-> Max(0, limit - Len(entries[endpoint]))]

\* line 67: the paths that skip rate limiting
SkippedPaths == {"/", "/health", "/info"}

\* line 73: is_login
IsLogin(req) == req.path = LoginPath /\ req.method = "POST"

\* the history after a request of ip at t
MwLogged(ip, login, t) ==
    IF login THEN [mw_admitted EXCEPT ![ip] = Append(InWindow(@, t, login_window), t)]
    ELSE mw_admitted

\* RateLimitMiddleware.dispatch(request, call_next), the downstream handler
\* answering within the same instant
Dispatch(ip, req) ==
    /\ Len(InWindow(mw_admitted[ip], now, login_window)) <= login_rate_limit + 1
    /\ IF req.path \in SkippedPaths
       THEN /\ response' = [NoResponse EXCEPT !.status = 200, !.ip = ip, !.at = now,
                                             !.endpoint = req.path, !.forwarded = TRUE]
            /\ UNCHANGED <<requests, mw_admitted>>
       ELSE LET login    == IsLogin(req)
                endpoint == IF login THEN req.path ELSE "general"
                limit    == IF login THEN login_rate_limit ELSE general_rate_limit
                window   == IF login THEN login_window ELSE general_window
                cleaned  == CleanOldRequests(requests[ip], now, window)
                check    == IsRateLimited(cleaned, endpoint, limit)
                recorded == [cleaned EXCEPT ![endpoint] = Append(@, now)]
                after    == IsRateLimited(CleanOldRequests(recorded, now, window),
                                          endpoint, limit)
                seen     == Trailing(mw_admitted[ip], now, login_window)
            IN  IF check.limited
                THEN /\ requests' = [requests EXCEPT ![ip] = cleaned]
                     /\ response' = [status |-> 429, ip |-> ip, endpoint |-> endpoint,
                                     at |-> now, forwarded |-> FALSE, limit |-> limit,
                                     remaining |-> -1, retry_after |-> -1, seen |-> seen]
                     /\ UNCHANGED mw_admitted
                ELSE /\ requests' = [requests EXCEPT
                                       ![ip] = CleanOldRequests(recorded, now, window)]
                     /\ response' = [status |-> 200, ip |-> ip, endpoint |-> endpoint,
                                     at |-> now, forwarded |-> TRUE, limit |-> limit,
                                     remaining |-> after.remaining, retry_after |-> -1,
                                     seen |-> seen]
                     /\ mw_admitted' = MwLogged(ip, login, now)
    /\ UNCHANGED <<now, limiterVars, callerVars, cacheVars, marketVars, jobVars>>

MwTick ==
    /\ \E d \in MwSteps :
          /\ now + Seconds(d) <= Seconds(MwHorizon)
          /\ d = general_window =>
                (now % Seconds(login_window)) < Seconds(MwShortSteps * general_window)
          /\ now' = now + Seconds(d)
    /\ UNCHANGED <<limiterVars, callerVars, mwVars, cacheVars, marketVars, jobVars>>

MwSpecInit ==
    /\ now = 0
    /\ limiter = login_limiter
    /\ REDIS_AVAILABLE = FALSE
    /\ redis_up = FALSE
    /\ StoreInit
    /\ MwInit
    /\ CacheIdle
    /\ MarketIdle
    /\ SchedulerIdle

MwNext ==
    \/ MwTick
    \/ \E ip \in IPs, req \in Requests : Dispatch(ip, req)

SpecMw == MwSpecInit /\ [][MwNext]_vars

\* ------------------------------------- the limiter and the middleware
\* A run exercises either a RateLimiter (constructed with small parameters) or
\* the middleware, which keeps its own lists and never calls a RateLimiter.
DenialInit == Init \/ MwSpecInit

DenialNext ==
    \/ limiter # login_limiter /\ Next
    \/ limiter = login_limiter /\ MwNext

SpecDenial == DenialInit /\ [][DenialNext]_vars

\* ------------------------------------------------------- CacheService
cacheFrame == <<limiterVars, callerVars, mwVars, marketVars, jobVars>>

\* whether a command sent by the service reaches the backend
Reachable == redis_client = "client" /\ backend = "up"

CacheReturn(op, symbol, source) ==
    [NoCacheResult EXCEPT !.op = op, !.symbol = symbol, !.source = source,
                          !.reachable = Reachable]

\* CacheService.__init__, called once by get_cache_service(): ping() raises
\* redis.ConnectionError when the connection is refused, which is caught, and
\* redis.TimeoutError when the connect times out, which is not
Construct ==
    /\ redis_client = "unset"
    /\ redis_client' = CASE backend = "up" -> "client"
                         [] backend = "refused" -> "none"
                         [] OTHER -> "unset"
    /\ cache_result' = [CacheReturn("init", <<>>, <<>>) EXCEPT
                            !.ok = backend = "up",
                            !.reachable = backend = "up",
                            !.raised = backend = "timeout"]
    /\ UNCHANGED <<now, backend, ttl_strict, cache_data, cache_ops, cacheFrame>>

\* CacheService.cache_market_data
CacheMarketData(symbol, data, source, ttl, db) ==
    /\ redis_client # "unset"
    /\ cache_ops < MaxCacheOps
    /\ cache_ops' = cache_ops + 1
    /\ LET key == GenerateCacheKey(symbol, source)
           cache_ttl == EffectiveTtl(ttl)
           stamped == Stamp(data, symbol, source, now)
           wrote == Reachable /\ Serialisable(stamped)
           returned == wrote /\ db # "broken"
       IN  /\ cache_data' = IF wrote
                            THEN [cache_data EXCEPT ![key] = Entry(stamped, cache_ttl, now)]
                            ELSE cache_data
           /\ cache_result' = [CacheReturn("set", symbol, source) EXCEPT
                                   !.ok = returned,
                                   !.value = IF redis_client = "client" THEN stamped
                                             ELSE data,
                                   !.expires = IF wrote THEN now + Seconds(cache_ttl)
                                               ELSE -1]
    /\ UNCHANGED <<now, redis_client, backend, ttl_strict, cacheFrame>>

\* CacheService.get_cached_price
GetCachedPrice(symbol, source) ==
    /\ redis_client # "unset"
    /\ cache_ops < MaxCacheOps
    /\ cache_ops' = cache_ops + 1
    /\ LET entry == cache_data[GenerateCacheKey(symbol, source)]
           hit == Reachable /\ Visible(entry, now)
       IN  cache_result' = [CacheReturn("get", symbol, source) EXCEPT
                                !.ok = hit,
                                !.value = IF hit THEN entry.text ELSE NoQuote,
                                !.expires = IF hit THEN entry.expires ELSE -1]
    /\ UNCHANGED <<now, redis_client, backend, ttl_strict, cache_data, cacheFrame>>

\* the keys invalidate_cache asks the backend to delete
InvalidatedKeys(symbol, source, pattern) ==
    IF pattern # <<>>
    THEN {k \in CacheKeys : Visible(cache_data[k], now) /\ Glob(pattern, k)}
    ELSE IF symbol # <<>>
         THEN IF source # <<>>
              THEN {GenerateCacheKey(symbol, source)}
              ELSE {k \in CacheKeys :
                        /\ Visible(cache_data[k], now)
                        /\ Glob(<<"market_data:">> \o Upper(symbol) \o <<"*">>, k)}
         ELSE {k \in CacheKeys :
                   Visible(cache_data[k], now) /\ Glob(<<"market_data:", "*">>, k)}

\* CacheService.invalidate_cache; symbol <<>> is no symbol
InvalidateCache(symbol, source, pattern) ==
    /\ redis_client # "unset"
    /\ cache_ops < MaxCacheOps
    /\ cache_ops' = cache_ops + 1
    /\ LET keys == IF Reachable THEN InvalidatedKeys(symbol, source, pattern) ELSE {}
           gone == {k \in keys : Visible(cache_data[k], now)}
       IN  /\ cache_data' = [k \in CacheKeys |->
                                IF k \in keys THEN NoEntry ELSE cache_data[k]]
           /\ cache_result' = [CacheReturn("invalidate", symbol, source) EXCEPT
                                   !.deleted = Cardinality(gone)]
    /\ UNCHANGED <<now, redis_client, backend, ttl_strict, cacheFrame>>

\* the elements a batch may hold: well-formed items, a dict without its
\* 'source' key, and an element that is not a dict
BulkItems ==
    [shape : {"ok"}, symbol : {<<"a">>, <<"b">>}, data : Quotes, source : {<<"y">>}]
    \cup {[shape |-> "no_source_key", symbol |-> <<"a">>, data |-> NoQuote, source |-> <<>>],
          [shape |-> "not_a_dict", symbol |-> <<>>, data |-> NoQuote, source |-> <<>>]}

Batches == UNION {[1..n -> BulkItems] : n \in 0..MaxBatch}

NoPipeline == [queue |-> <<>>, success |-> 0, failed |-> 0, aborted |-> FALSE]

\* the for loop of bulk_cache_update: a KeyError or a TypeError of json.dumps
\* is counted by the inner handler; on an element that is not a dict the inner
\* handler's item.get raises and the loop is left; a SETEX queued before
\* _save_to_database raised stays in the pipeline
RECURSIVE BulkPrepare(_, _, _, _, _)
BulkPrepare(data_list, pipe, ttl, db, t) ==
    IF data_list = <<>> THEN pipe
    ELSE LET item == Head(data_list)
             stamped == Stamp(item.data, item.symbol, item.source, t)
             command == [key |-> GenerateCacheKey(item.symbol, item.source),
                         entry |-> Entry(stamped, EffectiveTtl(ttl), t)]
         IN  IF item.shape = "not_a_dict"
             THEN [pipe EXCEPT !.aborted = TRUE]
             ELSE IF item.shape = "no_source_key" \/ ~Serialisable(stamped)
                  THEN BulkPrepare(Tail(data_list),
                                   [pipe EXCEPT !.failed = @ + 1], ttl, db, t)
                  ELSE IF db = "broken"
                       THEN BulkPrepare(Tail(data_list),
                                        [pipe EXCEPT !.queue = Append(@, command),
                                                     !.failed = @ + 1], ttl, db, t)
                       ELSE BulkPrepare(Tail(data_list),
                                        [pipe EXCEPT !.queue = Append(@, command),
                                                     !.success = @ + 1], ttl, db, t)

\* pipe.execute(): the queued SETEX commands, in order
RECURSIVE Execute(_, _)
Execute(data, queue) ==
    IF queue = <<>> THEN data
    ELSE Execute([data EXCEPT ![Head(queue).key] = Head(queue).entry], Tail(queue))

\* an item bulk_cache_update can prepare: a dict with its three keys whose data
\* json.dumps can encode
WellFormed(item) == item.shape = "ok" /\ Serialisable(item.data)

\* the positions of the well-formed items of a batch
Good(data_list) == {i \in 1..Len(data_list) : WellFormed(data_list[i])}

\* an outer handler that sets failed_count and leaves success_count as it is
BulkCacheUpdateKeepingSuccess(data_list, ttl, db) ==
    /\ redis_client # "unset"
    /\ cache_ops < MaxCacheOps
    /\ cache_ops' = cache_ops + 1
    /\ LET pipe == BulkPrepare(data_list, NoPipeline, ttl, db, now)
           executes == redis_client = "client" /\ ~pipe.aborted /\ pipe.success > 0
           failedAll == \/ redis_client = "none"
                        \/ pipe.aborted
                        \/ executes /\ backend # "up"
           wrote == executes /\ backend = "up"
       IN  /\ cache_data' = IF wrote THEN Execute(cache_data, pipe.queue) ELSE cache_data
           /\ cache_result' = [CacheReturn("bulk", <<>>, <<>>) EXCEPT
                                   !.size = Len(data_list),
                                   !.wellformed = Cardinality(Good(data_list)),
                                   !.keys = {GenerateCacheKey(data_list[i].symbol,
                                                              data_list[i].source) :
                                                 i \in Good(data_list)},
                                   !.success = pipe.success,
                                   !.failed = IF failedAll THEN Len(data_list)
                                              ELSE pipe.failed]
    /\ UNCHANGED <<now, redis_client, backend, ttl_strict, cacheFrame>>

\* CacheService.bulk_cache_update
BulkCacheUpdate(data_list, ttl, db) ==
    /\ redis_client # "unset"
    /\ cache_ops < MaxCacheOps
    /\ cache_ops' = cache_ops + 1
    /\ LET pipe == BulkPrepare(data_list, NoPipeline, ttl, db, now)
           executes == redis_client = "client" /\ ~pipe.aborted /\ pipe.success > 0
           failedAll == \/ redis_client = "none"
                        \/ pipe.aborted
                        \/ executes /\ backend # "up"
           wrote == executes /\ backend = "up"
       IN  /\ cache_data' = IF wrote THEN Execute(cache_data, pipe.queue) ELSE cache_data
           /\ cache_result' = [CacheReturn("bulk", <<>>, <<>>) EXCEPT
                                   !.size = Len(data_list),
                                   !.wellformed = Cardinality(Good(data_list)),
                                   !.keys = {GenerateCacheKey(data_list[i].symbol,
                                                              data_list[i].source) :
                                                 i \in Good(data_list)},
                                   !.success = IF failedAll THEN 0 ELSE pipe.success,
                                   !.failed = IF failedAll THEN Len(data_list)
                                              ELSE pipe.failed]
    /\ UNCHANGED <<now, redis_client, backend, ttl_strict, cacheFrame>>

\* --------------------------------------------- the cache's environment
\* the Redis server of the cache becomes unreachable, or reachable again
BackendChange ==
    /\ backend' \in {"up", "refused", "timeout"} \ {backend}
    /\ cache_result' = NoCacheResult
    /\ UNCHANGED <<now, redis_client, ttl_strict, cache_data, cache_ops, cacheFrame>>

\* the backend drops the entries whose TTL has elapsed
BackendExpire ==
    /\ \E k \in CacheKeys : Expired(cache_data[k], now)
    /\ cache_data' = [k \in CacheKeys |->
                         IF Expired(cache_data[k], now) THEN NoEntry ELSE cache_data[k]]
    /\ cache_result' = NoCacheResult
    /\ UNCHANGED <<now, redis_client, backend, ttl_strict, cache_ops, cacheFrame>>

CacheTick ==
    /\ \E d \in CacheSteps :
          /\ d = 1 => (now % Seconds(default_ttl)) < Seconds(CacheShortSteps)
          /\ now + Seconds(d) <= Seconds(CacheHorizon)
          /\ now' = now + Seconds(d)
    /\ cache_result' = NoCacheResult
    /\ UNCHANGED <<redis_client, backend, ttl_strict, cache_data, cache_ops, cacheFrame>>

CacheInit ==
    /\ now = 0
    /\ limiter = login_limiter
    /\ REDIS_AVAILABLE = FALSE
    /\ redis_up = FALSE
    /\ StoreInit
    /\ MwInit
    /\ redis_client = "unset"
    /\ backend \in {"up", "refused", "timeout"}
    /\ ttl_strict \in BOOLEAN
    /\ cache_data = [k \in CacheKeys |-> NoEntry]
    /\ cache_result = NoCacheResult
    /\ cache_ops = 0
    /\ MarketIdle
    /\ SchedulerIdle

CacheNext ==
    \/ Construct
    \/ \E symbol \in Symbols, data \in Quotes, source \in Sources, ttl \in Ttls,
          db \in Sessions : CacheMarketData(symbol, data, source, ttl, db)
    \/ \E symbol \in Symbols, source \in Sources : GetCachedPrice(symbol, source)
    \/ \E symbol \in Symbols \cup {<<>>}, source \in Sources, pattern \in Patterns :
          InvalidateCache(symbol, source, pattern)
    \/ \E data_list \in Batches, db \in Sessions : BulkCacheUpdate(data_list, 0, db)
    \/ BackendChange
    \/ BackendExpire
    \/ CacheTick

SpecCache == CacheInit /\ [][CacheNext]_vars

\* ------------------------------------------- bulk updates on their own
BulkBatches == UNION {[1..n -> BulkItems] : n \in 0..MaxBulkBatch}

BulkNext ==
    \/ Construct
    \/ \E data_list \in BulkBatches : BulkCacheUpdate(data_list, 0, "none")
    \/ \E symbol \in Symbols, source \in Sources : GetCachedPrice(symbol, source)
    \/ BackendChange
    \/ BackendExpire
    \/ CacheTick

SpecBulk == CacheInit /\ [][BulkNext]_vars

\* ------------------------------------------- lookups by symbol and source
KeyNext ==
    \/ Construct
    \/ \E symbol \in KeySymbols, data \in Quotes, source \in Sources :
          CacheMarketData(symbol, data, source, 0, "none")
    \/ \E symbol \in KeySymbols, source \in Sources : GetCachedPrice(symbol, source)
    \/ \E symbol \in KeySymbols, source \in Sources :
          InvalidateCache(symbol, source, <<>>)
    \/ BackendChange
    \/ CacheTick

SpecKey == CacheInit /\ [][KeyNext]_vars

\* ------------------------------------------- invalidation by symbol
InvalidateNext ==
    \/ Construct
    \/ \E symbol \in InvalidateSymbols, data \in Quotes, source \in Sources :
          CacheMarketData(symbol, data, source, 0, "none")
    \/ \E symbol \in InvalidateSymbols, source \in Sources :
          InvalidateCache(symbol, source, <<>>)
    \/ BackendChange
    \/ CacheTick

SpecInvalidate == CacheInit /\ [][InvalidateNext]_vars

\* ---------------------------------------------------- MarketDataService
marketFrame == <<now, limiterVars, callerVars, mwVars, cacheVars, jobVars>>

\* MarketDataService.get_stock_price
GetStockPrice(symbol, provider, use_fallback, outcomes) ==
    /\ quote_result' = GetStockPriceResult(symbol, provider, use_fallback, outcomes)
    /\ prices' = NoPrices
    /\ UNCHANGED marketFrame

\* the answers of the providers during a batch: all well, the preferred one
\* down, both down, both rate-limited
BatchOutcomes ==
    {[p \in Providers |-> Success],
     [p \in Providers |->
         IF p = "yahoo" THEN [kind |-> "Unavailable", message |-> <<"Connection timed out">>]
         ELSE Success],
     [p \in Providers |-> [kind |-> "Unavailable", message |-> <<"Connection timed out">>]],
     [p \in Providers |-> [kind |-> "RateLimited", message |-> <<"429", " Too Many Requests">>]]}

\* the answers of the providers during a trending call: all well, or both down
TrendingOutcomes ==
    {[p \in Providers |-> Success],
     [p \in Providers |-> [kind |-> "Unavailable", message |-> <<"Connection timed out">>]]}

\* an assignment to prices that is lost
AssignNothing(map, symbol, value) == map

\* prices[symbol] = value
Assign(map, symbol, value) ==
    [s \in DOMAIN map \cup {symbol} |-> IF s = symbol THEN value ELSE map[s]]

\* the loop of get_bulk_stock_prices: every failure of get_stock_price is
\* caught and leaves None (kind "none") under the symbol
RECURSIVE FetchAll(_, _, _, _)
FetchAll(symbols, outcomes, i, acc) ==
    IF i > Len(symbols) THEN acc
    ELSE LET fetched == GetStockPriceResult(symbols[i], "yahoo", TRUE, outcomes[i])
             value == IF fetched.kind = "quote" THEN fetched
                      ELSE [NoQuoteResult EXCEPT !.symbol = symbols[i]]
         IN  FetchAll(symbols, outcomes, i + 1,
                      [acc EXCEPT !.map = Assign(@, symbols[i], value),
                                  !.fetched = Append(@, fetched)])

\* MarketDataService.get_bulk_stock_prices
GetBulkStockPrices(symbols, outcomes) ==
    /\ prices' = FetchAll(symbols, outcomes, 1, [NoPrices EXCEPT !.symbols = symbols])
    /\ quote_result' = NoQuoteResult
    /\ UNCHANGED marketFrame

trending_symbols == <<<<"AAPL">>, <<"GOOGL">>, <<"MSFT">>, <<"AMZN">>, <<"TSLA">>>>

\* MarketDataService.get_trending_stocks
GetTrendingStocks(outcomes) == GetBulkStockPrices(trending_symbols, outcomes)

\* symbol lists handed to get_bulk_stock_prices
BulkSymbols == {<<"AAPL">>, <<"ZZZZ">>, <<"A", "429">>}

SymbolLists == UNION {[1..n -> BulkSymbols] : n \in 0..MaxSymbols}

MarketInit ==
    /\ now = 0
    /\ limiter = login_limiter
    /\ REDIS_AVAILABLE = FALSE
    /\ redis_up = FALSE
    /\ StoreInit
    /\ MwInit
    /\ CacheIdle
    /\ MarketIdle
    /\ SchedulerIdle

QuoteNext ==
    \/ \E symbol \in MarketSymbols, provider \in RequestedProviders,
          use_fallback \in BOOLEAN :
          \E outcomes \in Outcomes(symbol) :
              GetStockPrice(symbol, provider, use_fallback, outcomes)
    \/ \E symbols \in SymbolLists :
          \E outcomes \in [1..Len(symbols) -> BatchOutcomes] :
              GetBulkStockPrices(symbols, outcomes)
    \/ \E outcomes \in [1..Len(trending_symbols) -> TrendingOutcomes] :
          GetTrendingStocks(outcomes)

SpecQuote == MarketInit /\ [][QuoteNext]_vars

\* ------------------------------------------------ GET /price/{symbol}
\* the symbols asked of the endpoint, which the cache may hold as well
PriceSymbols == {<<"a">>, <<"b">>}

\* get_price of api/v1/market.py: get_stock_price(symbol, provider=provider)
\* and nothing else; every exception of the service becomes a 500 (none of
\* them is a ValueError); the cache service is neither read nor written
GetPrice(symbol, provider, outcomes) ==
    /\ LET fetched == GetStockPriceResult(symbol, provider, TRUE, outcomes)
       IN  quote_result' = [fetched EXCEPT
                               !.op = "get_price",
                               !.status = IF fetched.kind = "quote" THEN 200 ELSE 500]
    /\ prices' = NoPrices
    /\ UNCHANGED marketFrame

\* what the background job hands to bulk_cache_update: one quote per symbol
PriceBatches ==
    {<<[shape |-> "ok", symbol |-> symbol, data |-> data, source |-> <<"y">>]>> :
        symbol \in PriceSymbols, data \in {q \in Quotes : Serialisable(q)}}

ReadNext ==
    \/ Construct
    \/ \E data_list \in PriceBatches : BulkCacheUpdate(data_list, 0, "none")
    \/ \E symbol \in PriceSymbols, provider \in RequestedProviders,
          outcomes \in BatchOutcomes : GetPrice(symbol, provider, outcomes)
    \/ BackendExpire
    \/ CacheTick

SpecRead == CacheInit /\ [][ReadNext]_vars

\* ------------------------------------------------ BackgroundTaskService
jobFrame ==
    <<now, limiterVars, callerVars, mwVars, marketVars, redis_client, backend,
      ttl_strict, cache_result, cache_ops>>

\* the TTL fetch_popular_stock_prices passes to SETEX
popular_ttl == 300

\* the ttl update_trending_stocks passes to bulk_cache_update
trending_ttl == 3600

\* the keys the jobs write under
JobKeys ==
    {GenerateCacheKey(symbol, <<ProviderName(p)>>) :
        symbol \in Range(popular_symbols) \cup Range(trending_symbols),
        p \in Providers}

\* the dict a provider answers with, as far as the cache looks at it
QuoteDict(symbol) ==
    [price |-> 1, symbol |-> symbol, source |-> Absent, cached_at |-> -1,
     timestamp |-> "2024-01-02"]

\* the symbols no provider answers for during a run
FailingSets == {{}, {<<"GOOGL">>, <<"META">>}, Range(popular_symbols)}

\* the answers of the providers during the fetch of a run: nothing for the
\* failing symbols, and for the others either both answer or only alpha_vantage
RunOutcomes(symbols) ==
    {[i \in 1..Len(symbols) |->
         IF symbols[i] \in failing
         THEN [p \in Providers |->
                  [kind |-> "Unavailable", message |-> <<"Connection timed out">>]]
         ELSE up] :
        failing \in FailingSets,
        up \in {[p \in Providers |-> Success],
                [p \in Providers |->
                    IF p = "yahoo"
                    THEN [kind |-> "Unavailable", message |-> <<"Connection timed out">>]
                    ELSE Success]}}

\* the answers the providers may give while the watch-list is fetched
PopularOutcomes == RunOutcomes(popular_symbols)

\* the answers the providers may give while the trending symbols are fetched
TrendingRunOutcomes == RunOutcomes(trending_symbols)

\* the symbols of a prices dict whose value is not None
Truthy(fetched) == {symbol \in DOMAIN fetched : fetched[symbol].kind = "quote"}

\* _generate_cache_key(symbol, price_data.get("provider"))
PriceKey(fetched, symbol) ==
    GenerateCacheKey(symbol, <<ProviderName(fetched[symbol].provider)>>)

\* start(): the jobs are added and the scheduler is started; the service was
\* constructed with the cache service get_cache_service() returned
Start ==
    /\ redis_client # "unset"
    /\ jobs.scheduler = "stopped"
    /\ jobs' = [jobs EXCEPT !.scheduler = "running"]
    /\ UNCHANGED <<cache_data, jobFrame>>

\* a trigger fires and the scheduler starts the coroutine of the job on the
\* event loop; refresh_cache begins with fetch_popular_stock_prices
RunJob(job) ==
    /\ jobs.scheduler = "running"
    /\ jobs.job = "none"
    /\ jobs.runs < MaxRuns
    /\ jobs' = [jobs EXCEPT
                   !.job = job,
                   !.body = IF job = "update_trending" THEN "update_trending_stocks"
                            ELSE "fetch_popular_stock_prices",
                   !.pc = "fetch",
                   !.fetched = <<>>,
                   !.data_list = <<>>,
                   !.errors = {},
                   !.raised = FALSE,
                   !.hot_ok = {},
                   !.trending_ok = {},
                   !.written = {},
                   !.before = {k \in JobKeys : cache_data[k].present},
                   !.reachable = TRUE]
    /\ UNCHANGED <<cache_data, jobFrame>>

\* the body a run is in has returned: refresh_cache goes on with
\* update_trending_stocks, every other return ends the run
Returned(run) ==
    IF run.job = "refresh_cache" /\ run.body = "fetch_popular_stock_prices"
    THEN [run EXCEPT !.body = "update_trending_stocks", !.pc = "fetch",
                     !.fetched = <<>>, !.data_list = <<>>]
    ELSE [run EXCEPT !.job = "none", !.body = "none", !.pc = "idle",
                     !.fetched = <<>>, !.data_list = <<>>, !.runs = @ + 1]

\* an exception inside the try block of a body: logged by its except clause,
\* or leaving the coroutine when the clause does not catch it
RunFailed(run, exception) ==
    IF Caught(exception)
    THEN Returned([run EXCEPT !.errors = @ \cup {exception}])
    ELSE [run EXCEPT !.job = "none", !.body = "none", !.pc = "idle",
                     !.fetched = <<>>, !.data_list = <<>>, !.runs = @ + 1,
                     !.raised = TRUE]

\* fetch_popular_stock_prices up to the return of get_bulk_stock_prices
FetchPopularStockPricesFetch(outcomes) ==
    /\ jobs.body = "fetch_popular_stock_prices"
    /\ jobs.pc = "fetch"
    /\ LET fetched == FetchAll(popular_symbols, outcomes, 1,
                               [NoPrices EXCEPT !.symbols = popular_symbols]).map
       IN  jobs' = [jobs EXCEPT
                       !.fetched = fetched,
                       !.pc = "store",
                       !.hot_ok = @ \cup {PriceKey(fetched, symbol) :
                                              symbol \in Truthy(fetched)}]
    /\ UNCHANGED <<cache_data, jobFrame>>

\* fetch_popular_stock_prices from redis_client.pipeline() on: None has no
\* pipeline(), json is not a name of the module, and execute() of an empty
\* pipeline sends nothing
FetchPopularStockPricesStore ==
    /\ jobs.body = "fetch_popular_stock_prices"
    /\ jobs.pc = "store"
    /\ LET ok == Truthy(jobs.fetched)
           keys == {PriceKey(jobs.fetched, symbol) : symbol \in ok}
           exception ==
               IF redis_client = "none" THEN "AttributeError"
               ELSE IF ok # {} /\ "json" \notin ImportedModules THEN "NameError"
               ELSE IF ok # {} /\ backend = "refused" THEN "ConnectionError"
               ELSE IF ok # {} /\ backend = "timeout" THEN "TimeoutError"
               ELSE "none"
           run == [jobs EXCEPT
                      !.reachable = @ /\ Reachable,
                      !.written = IF exception = "none" THEN @ \cup keys ELSE @]
       IN  /\ cache_data' =
                  IF exception = "none"
                  THEN [k \in DOMAIN cache_data |->
                           IF k \in keys
                           THEN Entry(QuoteDict(CHOOSE symbol \in ok :
                                                   PriceKey(jobs.fetched, symbol) = k),
                                      popular_ttl, now)
                           ELSE cache_data[k]]
                  ELSE cache_data
           /\ jobs' = IF exception = "none" THEN Returned(run)
                      ELSE RunFailed(run, exception)
    /\ UNCHANGED jobFrame

\* data_list of update_trending_stocks: one item per symbol that has a quote
TrendingDataList(fetched) ==
    LET found == SelectSeq(trending_symbols, LAMBDA symbol : symbol \in Truthy(fetched))
    IN  [i \in 1..Len(found) |->
            [shape |-> "ok", symbol |-> found[i], data |-> QuoteDict(found[i]),
             source |-> <<ProviderName(fetched[found[i]].provider)>>]]

\* update_trending_stocks up to data_list, built from what get_trending_stocks
\* returned
UpdateTrendingStocksFetch(outcomes) ==
    /\ jobs.body = "update_trending_stocks"
    /\ jobs.pc = "fetch"
    /\ LET fetched == FetchAll(trending_symbols, outcomes, 1,
                               [NoPrices EXCEPT !.symbols = trending_symbols]).map
       IN  jobs' = [jobs EXCEPT
                       !.fetched = fetched,
                       !.data_list = TrendingDataList(fetched),
                       !.pc = "store",
                       !.trending_ok = @ \cup {PriceKey(fetched, symbol) :
                                                   symbol \in Truthy(fetched)}]
    /\ UNCHANGED <<cache_data, jobFrame>>

\* the pipeline bulk_cache_update(data_list, ttl=3600) prepares for the prices
\* the run fetched, without a db session
TrendingPipe ==
    BulkPrepare(jobs.data_list, NoPipeline, trending_ttl, "none", now)

\* whether that pipeline is executed and reaches the backend
TrendingWrote ==
    /\ jobs.data_list # <<>>
    /\ redis_client = "client"
    /\ ~TrendingPipe.aborted
    /\ TrendingPipe.success > 0
    /\ backend = "up"

\* update_trending_stocks from data_list on: bulk_cache_update is called when
\* data_list is not empty, and its counts are ignored
UpdateTrendingStocksStore ==
    /\ jobs.body = "update_trending_stocks"
    /\ jobs.pc = "store"
    /\ cache_data' = IF TrendingWrote THEN Execute(cache_data, TrendingPipe.queue)
                     ELSE cache_data
    /\ jobs' = Returned([jobs EXCEPT
                            !.reachable = @ /\ Reachable,
                            !.written =
                                IF TrendingWrote
                                THEN @ \cup {TrendingPipe.queue[i].key :
                                                i \in 1..Len(TrendingPipe.queue)}
                                ELSE @])
    /\ UNCHANGED jobFrame

JobsInit ==
    /\ now = 0
    /\ limiter = login_limiter
    /\ REDIS_AVAILABLE = FALSE
    /\ redis_up = FALSE
    /\ StoreInit
    /\ MwInit
    /\ redis_client = "unset"
    /\ backend \in {"up", "refused", "timeout"}
    /\ ttl_strict = TRUE
    /\ cache_data = [k \in JobKeys |-> NoEntry]
    /\ cache_result = NoCacheResult
    /\ cache_ops = 0
    /\ MarketIdle
    /\ SchedulerIdle

\* the statements of a running job
JobStep ==
    \/ \E outcomes \in PopularOutcomes :
          FetchPopularStockPricesFetch(outcomes)
    \/ FetchPopularStockPricesStore
    \/ \E outcomes \in TrendingRunOutcomes :
          UpdateTrendingStocksFetch(outcomes)
    \/ UpdateTrendingStocksStore

JobsNext ==
    \/ Construct
    \/ Start
    \/ \E job \in JobIds : RunJob(job)
    \/ JobStep
    \/ BackendChange
    \/ CacheTick

\* the event loop runs a started coroutine to its end
SpecJobs == JobsInit /\ [][JobsNext]_vars /\ WF_vars(JobStep)

\* ------------------------------------------------------------------ claims
\* the oldest timestamp left in the bucket of a key
Oldest(key) ==
    IF REDIS_AVAILABLE THEN SetMin(redis_zset[key]) ELSE SetMin(Range(memory_store[key]))

C2_RaceKeepsLimit ==
    \A k \in Keys : Burst(admitted[k], limiter.time_window) <= limiter.max_attempts

\* C4: every denial returns ceil(window - (now - oldest remaining timestamp)), and
\* that value is greater than 0.
C4_RetryIsCeilAndPositive ==
    result.kind = "denied" =>
        /\ result.retry =
              CeilSeconds(Seconds(limiter.time_window) - (result.at - Oldest(result.key)))
        /\ result.retry > 0

\* C5: a call made on a denied bucket once time_window seconds have passed since
\* its oldest counted timestamp, no call having been admitted in between, is
\* admitted (a timestamp with now - ts >= window does not count).
C5_ExpiredNeverCounts ==
    [][(/\ result.kind = "denied"
        /\ result' # result
        /\ result'.key = result.key
        /\ result'.kind # "error"
        /\ result'.at - Oldest(result.key) >= Seconds(limiter.time_window))
       => result'.kind = "allowed"]_vars

\* a call is admitted right after a denial on the same bucket, every earlier
\* admitted call of the bucket having left the window
C5_Witness ==
    /\ result.kind = "allowed"
    /\ result.prev = "denied"
    /\ result.seen = 0
    /\ limiter.max_attempts = 2

\* C7: every call of is_allowed returns a decision; none raises.
C7_NeverErrors == result.kind # "error"

\* C3: a client IP is never admitted more than login_rate_limit POST login requests
\* within any span of login_window seconds, whatever it sends to other endpoints.
C3_LoginLimitHolds ==
    /\ \A ip \in IPs : Burst(mw_admitted[ip], login_window) <= login_rate_limit
    /\ (response.endpoint = LoginPath /\ response.forwarded)
          => response.seen < login_rate_limit

\* C6: the pre-configured login limiter denies the attempt that follows
\* login_rate_limit admitted ones of the same identity within login_window (900)
\* seconds, and the pre-configured API limiter denies the request that follows
\* general_rate_limit admitted ones within general_window (60) seconds.
C6_NamedPolicies ==
    (~REDIS_AVAILABLE /\ result.kind = "allowed") =>
        /\ limiter = login_limiter => result.seen < login_rate_limit
        /\ limiter = api_limiter => result.seen < general_rate_limit

\* C8: when the cache backend is unreachable at construction or at call time,
\* a read is a miss, a single write reports failure, a bulk write reports
\* success 0 and failed equal to the batch size, an invalidation reports 0
\* deleted, and no cache operation, the construction included, raises.
C8_UnreachableNeverRaises ==
    /\ ~cache_result.raised
    /\ (cache_result.op \in {"get", "set", "bulk", "invalidate"} /\ ~cache_result.reachable)
           => /\ ~cache_result.ok
              /\ cache_result.success = 0
              /\ cache_result.failed = cache_result.size
              /\ cache_result.deleted = 0

C10_NeverReturnsExpired ==
    (cache_result.op = "get" /\ cache_result.ok) => now < cache_result.expires

\* C11: in a bulk update every malformed item, whatever its shape, counts as
\* exactly one failure and every well-formed item as exactly one success, and
\* every well-formed item of the batch is written and can be read back.
C11_BulkItemsIndependent ==
    (cache_result.op = "bulk" /\ cache_result.reachable)
        => /\ cache_result.success = cache_result.wellformed
           /\ cache_result.failed = cache_result.size - cache_result.wellformed
           /\ \A k \in cache_result.keys : Visible(cache_data[k], now)

\* whether two lookups are equal once the symbol is upper-cased
SameLookup(r, q) == Upper(r.symbol) = Upper(q.symbol) /\ r.source = q.source

Promised(requested) ==
    <<requested>> \o SelectSeq(<<"alpha_vantage", "yahoo">>, LAMBDA p : p # requested)

Known(chain) == SelectSeq(chain, LAMBDA p : p \in Providers)

IsPrefix(s, t) == Len(s) <= Len(t) /\ \A i \in 1..Len(s) : s[i] = t[i]

Called == quote_result.op = "get_stock_price"

Failed == quote_result.kind \in {"RateLimited", "NotFound", "Unavailable"}

\* C13: with fallback allowed, when the preferred provider fails (rate-limited,
\* not found or unavailable) the alternate is tried, and when the alternate
\* answers its quote is returned with is_fallback set and no error; an error
\* comes out only when every provider of the chain has failed.
C13_FallbackRecovers ==
    Called =>
        /\ (/\ quote_result.use_fallback
            /\ Len(quote_result.failures) >= 1
            /\ quote_result.failures[1].provider = quote_result.requested)
               => /\ Len(quote_result.calls) = 2
                  /\ Len(quote_result.failures) = 1
                         => /\ quote_result.kind = "quote"
                            /\ quote_result.is_fallback
                            /\ quote_result.provider = quote_result.calls[2]
                            /\ quote_result.provider # quote_result.requested
        /\ Failed => Len(quote_result.failures) = Len(quote_result.calls)

\* a rate-limited preferred provider has been passed over and the alternate
\* has answered
C13_Witness ==
    /\ Called
    /\ quote_result.kind = "quote"
    /\ quote_result.is_fallback
    /\ Len(quote_result.failures) = 1
    /\ quote_result.failures[1].kind = "RateLimited"

\* C14: when every provider of the chain fails as unavailable, the Unavailable
\* that is raised carries in its reason the message of each provider tried.
C14_ReasonListsEveryMessage ==
    (/\ Called
     /\ Len(quote_result.failures) >= 1
     /\ Len(quote_result.failures) = Len(quote_result.calls)
     /\ \A i \in 1..Len(quote_result.failures) :
            quote_result.failures[i].kind = "Unavailable")
        => /\ quote_result.kind = "Unavailable"
           /\ \A i \in 1..Len(quote_result.failures) :
                  IsInfix(quote_result.failures[i].message, quote_result.reason)

\* C15: when every provider of the chain reports the symbol as unknown, every
\* provider of the chain has been tried in turn and the error raised is
\* NotFound, whatever the symbol is made of.
C15_UnknownSymbolIsNotFound ==
    (/\ Called
     /\ Len(quote_result.failures) >= 1
     /\ Len(quote_result.failures) = Len(Known(ProviderChain(quote_result.requested,
                                                              quote_result.use_fallback)))
     /\ \A i \in 1..Len(quote_result.failures) :
            quote_result.failures[i].kind = "NotFound")
        => /\ quote_result.kind = "NotFound"
           /\ quote_result.calls = Known(ProviderChain(quote_result.requested,
                                                        quote_result.use_fallback))

\* C16: a rate-limited failure of the last provider of the chain is raised as
\* RateLimited for that provider, and a rate-limited failure of a provider
\* that is not the last one is never raised.
C16_RateLimitedOnlyFromLast ==
    Called =>
        \A i \in 1..Len(quote_result.failures) :
            LET failure == quote_result.failures[i]
                chain == Promised(quote_result.requested)
                last == IF quote_result.use_fallback THEN chain[2] ELSE chain[1]
            IN  failure.kind = "RateLimited"
                    => IF failure.provider = last
                       THEN /\ quote_result.kind = "RateLimited"
                            /\ quote_result.provider = last
                       ELSE ~(/\ quote_result.kind = "RateLimited"
                              /\ quote_result.provider = failure.provider)

\* both providers were rate-limited: the first was passed over, the second
\* raised
C16_Witness ==
    /\ Called
    /\ quote_result.kind = "RateLimited"
    /\ Len(quote_result.failures) = 2
    /\ quote_result.failures[1].kind = "RateLimited"
    /\ quote_result.provider = quote_result.failures[2].provider

\* C17: the providers are called in the promised order, each at most once;
\* without fallback only the requested provider is called; nothing is called
\* after the first success.
C17_ProvidersInOrder ==
    Called =>
        /\ IsPrefix(quote_result.calls, Known(Promised(quote_result.requested)))
        /\ ~quote_result.use_fallback
               => \A i \in 1..Len(quote_result.calls) :
                      quote_result.calls[i] = quote_result.requested
        /\ quote_result.kind = "quote"
               => /\ quote_result.provider = quote_result.calls[Len(quote_result.calls)]
                  /\ Len(quote_result.failures) = Len(quote_result.calls) - 1

\* the requested provider failed and the alternate was called after it
C17_Witness ==
    /\ Called
    /\ quote_result.kind = "quote"
    /\ quote_result.calls = <<"yahoo", "alpha_vantage">>

\* C18: a returned quote has is_fallback set exactly when the provider that
\* produced it is not the provider the caller requested.
C18_FallbackFlagExact ==
    (Called /\ quote_result.kind = "quote")
        => (quote_result.is_fallback <=> quote_result.provider # quote_result.requested)

\* a quote produced by the alternate of the requested provider
C18_Witness ==
    /\ Called
    /\ quote_result.kind = "quote"
    /\ quote_result.requested = "yahoo"
    /\ quote_result.provider = "alpha_vantage"
    /\ quote_result.is_fallback

\* the position of the last fetch of a symbol in the list
LastFetch(symbol) ==
    CHOOSE i \in 1..Len(prices.symbols) :
        /\ prices.symbols[i] = symbol
        /\ \A j \in (i + 1)..Len(prices.symbols) : prices.symbols[j] # symbol

\* C19: a bulk lookup returns an entry for every requested symbol and for no
\* other: the quote of the symbol when its lookup succeeded, None when it
\* failed, whatever happened to the other symbols.
C19_BulkQuotesPerSymbol ==
    /\ Len(prices.fetched) = Len(prices.symbols)
    /\ DOMAIN prices.map = {prices.symbols[i] : i \in 1..Len(prices.symbols)}
    /\ \A symbol \in DOMAIN prices.map :
           LET fetched == prices.fetched[LastFetch(symbol)]
           IN  IF fetched.kind = "quote"
               THEN prices.map[symbol] = fetched
               ELSE prices.map[symbol].kind = "none"

\* a trending call in which one symbol failed between two that succeeded
C19_Witness ==
    /\ prices.symbols = trending_symbols
    /\ prices.map[<<"AAPL">>].kind = "quote"
    /\ prices.map[<<"GOOGL">>].kind = "none"
    /\ prices.map[<<"MSFT">>].kind = "quote"

\* whether the cache would answer a lookup of the symbol now, under any source
CacheHolds(data, symbol) ==
    /\ Reachable
    /\ \E source \in Sources :
           LET entry == data[GenerateCacheKey(symbol, source)]
           IN  entry.present /\ ~Expired(entry, now)

\* C20: the quote read path checks the cache first: a lookup of a symbol the
\* cache holds unexpired calls no provider, and a lookup that misses and
\* fetches a quote leaves it in the cache for the next lookup.
C20_ReadPathChecksCache ==
    [][\A symbol \in PriceSymbols, provider \in RequestedProviders,
          outcomes \in BatchOutcomes :
          GetPrice(symbol, provider, outcomes) =>
              /\ CacheHolds(cache_data, symbol) => quote_result'.calls = <<>>
              /\ (~CacheHolds(cache_data, symbol) /\ Reachable
                    /\ quote_result'.kind = "quote")
                     => CacheHolds(cache_data', symbol)]_vars

\* C22: a failing job never crashes the scheduler: no run lets an exception
\* out of the job, whatever failed inside it; the scheduler, once started,
\* stays running; every run that was started comes to its end; and whenever no
\* run is in progress every job can be started again by its next tick.
C22_FailingJobNeverCrashes ==
    /\ [](~jobs.raised)
    /\ [][jobs.scheduler = "running" => jobs'.scheduler = "running"]_vars
    /\ (jobs.job \in JobIds) ~> (jobs.job = "none")
    /\ []((jobs.scheduler = "running" /\ jobs.job = "none" /\ jobs.runs < MaxRuns)
             => \A job \in JobIds : ENABLED RunJob(job))

\* a second run has ended, with the NameError of its body logged, and the
\* scheduler is still running
C22_Witness ==
    /\ jobs.scheduler = "running"
    /\ jobs.job = "none"
    /\ jobs.runs = 2
    /\ "NameError" \in jobs.errors

\* C23: when fetch_popular_stock_prices ends with the cache backend reachable,
\* every watch-list symbol it fetched a quote for is in the cache, unexpired and
\* with a TTL of minutes, whatever happened to the other symbols, and the run
\* has not raised.
C23_HotRefreshWritesSuccesses ==
    [][FetchPopularStockPricesStore =>
          /\ ~jobs'.raised
          /\ Reachable =>
                 \A symbol \in Truthy(jobs.fetched) :
                     LET entry == cache_data'[PriceKey(jobs.fetched, symbol)]
                     IN  /\ entry.present
                         /\ ~Expired(entry, now)
                         /\ entry.expires - now <= Seconds(popular_ttl)]_vars

\* C24: when a run of refresh_cache ends, no entry that was in the cache when
\* the run began is still served unless the run rewrote it, and, the backend
\* having been reachable, the cache holds an unexpired entry for every hot and
\* every trending symbol the run fetched a quote for.
C24_PurgeThenRewarm ==
    [][(jobs.job = "refresh_cache" /\ jobs'.job = "none") =>
          /\ \A k \in jobs'.before \ jobs'.written :
                 ~(Reachable /\ Visible(cache_data'[k], now))
          /\ jobs'.reachable =>
                 \A k \in jobs'.hot_ok \cup jobs'.trending_ok :
                     cache_data'[k].present /\ ~Expired(cache_data'[k], now)]_vars

\* C25: every denial the middleware answers with is a 429 that carries a
\* Retry-After header (retry_after is -1 when the response has none), and every
\* response to a request that went through the rate limit and was admitted
\* carries the X-RateLimit-Limit and X-RateLimit-Remaining headers.
C25_DenialCarriesRetryAfter ==
    /\ response.status = 429 => response.retry_after >= 0
    /\ (response.status = 200 /\ response.endpoint \notin SkippedPaths) =>
           (response.limit >= 0 /\ response.remaining >= 0)

\* C26: a denied check records nothing. After a denial of is_allowed(key) the
\* bucket of the key (list or sorted set) holds exactly the timestamps of before
\* that are still inside the window, no other bucket changes, and at every later
\* instant the next check is admitted exactly when it would have been without
\* the denied call; a request the middleware denies leaves only the cleaned list
\* of its client behind and is not forwarded.
C26_DenialRecordsNothing ==
    [][/\ \A key \in Keys :
             (IsAllowed(limiter, key, limiter.time_window) /\ result'.kind = "denied") =>
                /\ memory_store' =
                      [memory_store EXCEPT ![key] = PruneList(@, now, limiter.time_window)]
                /\ redis_zset' =
                      [redis_zset EXCEPT
                         ![key] = {ts \in @ : Fresh(ts, now, limiter.time_window)}]
                /\ \A k \in Keys \ {key} : redis_expire'[k] = redis_expire[k]
                /\ \A t \in now..MaxTime :
                      /\ MemoryOutcome(memory_store'[key], t, limiter).allowed
                            = MemoryOutcome(memory_store[key], t, limiter).allowed
                      /\ RedisOutcome(redis_zset'[key], redis_expire'[key], t, limiter).allowed
                            = RedisOutcome(redis_zset[key], redis_expire[key], t, limiter).allowed
       /\ \A ip \in IPs, req \in Requests :
             (Dispatch(ip, req) /\ response'.status = 429) =>
                /\ ~response'.forwarded
                /\ \A e \in Endpoints :
                      /\ Len(requests'[ip][e]) <= Len(requests[ip][e])
                      /\ Range(requests'[ip][e]) \subseteq Range(requests[ip][e])
                      /\ \A ts \in Range(requests[ip][e]) :
                            now - ts < Seconds(IF IsLogin(req) THEN login_window
                                               ELSE general_window)
                               => ts \in Range(requests'[ip][e])
      ]_vars

\* a caller that went on calling while denied: the second denial in a row, on a
\* full in-memory bucket
C26_Witness ==
    /\ result.kind = "denied"
    /\ result.prev = "denied"
    /\ ~REDIS_AVAILABLE
    /\ Len(memory_store[result.key]) = limiter.max_attempts
    /\ result.at > memory_store[result.key][1]

\* C27: the returned retry-after is sufficient. When the last call on a bucket
\* was denied with retry-after r and the next call on the bucket is made r
\* seconds after that denial, the call is admitted (a call the unreachable
\* Redis server makes raise decides nothing).
C27_RetryAfterSufficient ==
    [][\A key \in Keys :
          (/\ result.kind = "denied"
           /\ result.key = key
           /\ now = result.at + Seconds(result.retry)
           /\ IsAllowed(limiter, key, limiter.time_window)
           /\ result'.kind # "error")
             => result'.kind = "allowed"]_vars

\* C28: invalidation removes only what it names. invalidate_cache(symbol)
\* leaves every entry that is not an entry of that symbol (its source-less key
\* or one of its source-pinned keys) as it was, also the entries of a symbol that
\* starts with the same letters; invalidate_cache(symbol, source) touches one
\* key only; with the backend reachable the entries named are gone afterwards,
\* and the count returned is the number of entries the call removed.
C28_InvalidatesOnlyNamed ==
    [][\A symbol \in InvalidateSymbols, source \in Sources :
          InvalidateCache(symbol, source, <<>>) =>
             LET named == IF source # <<>>
                          THEN {GenerateCacheKey(symbol, source)}
                          ELSE {GenerateCacheKey(symbol, src) : src \in Sources}
                 removed == {k \in CacheKeys : Visible(cache_data[k], now)
                                                /\ ~Visible(cache_data'[k], now)}
             IN  /\ \A k \in CacheKeys \ named : cache_data'[k] = cache_data[k]
                 /\ Reachable => \A k \in named : ~Visible(cache_data'[k], now)
                 /\ cache_result'.deleted = Cardinality(removed)]_vars

\* C29: the counts of a bulk update add up. success and failed are natural
\* numbers whose sum is the length of the batch, and success is positive only
\* when the pipeline was executed by a reachable backend, in which case the
\* well-formed items of the batch are in the cache.
C29_BulkCountsAddUp ==
    cache_result.op = "bulk" =>
        /\ cache_result.success \in Nat
        /\ cache_result.failed \in Nat
        /\ cache_result.success + cache_result.failed = cache_result.size
        /\ cache_result.success > 0 =>
               /\ cache_result.reachable
               /\ \A k \in cache_result.keys : Visible(cache_data[k], now)

\* a batch of two with one item prepared and written and one item failed
C29_Witness ==
    /\ cache_result.op = "bulk"
    /\ cache_result.size = 2
    /\ cache_result.success = 1
    /\ cache_result.failed = 1

\* the failure get_stock_price met last
LastFailure == quote_result.failures[Len(quote_result.failures)]

\* C30: get_stock_price is total. Whatever the symbol, the requested provider
\* (known or not), the fallback flag and the answers of the providers, a call
\* ends with a populated quote of the provider called last or with exactly one
\* of RateLimited, NotFound, Unavailable; when it raises after a provider has
\* failed, the failure met last is the one of the last provider of the chain,
\* and two calls whose last failures are the same raise the same class.
C30_GetQuoteTotal ==
    /\ [](Called =>
            /\ quote_result.kind \in {"quote", "RateLimited", "NotFound", "Unavailable"}
            /\ quote_result.kind = "quote" =>
                   /\ quote_result.calls # <<>>
                   /\ quote_result.provider = quote_result.calls[Len(quote_result.calls)]
                   /\ quote_result.provider \in Providers
                   /\ Len(quote_result.failures) = Len(quote_result.calls) - 1
            /\ Failed =>
                   LET chain == ProviderChain(quote_result.requested,
                                              quote_result.use_fallback)
                   IN  IF Known(chain) = <<>>
                       THEN quote_result.failures = <<>> /\ quote_result.kind = "Unavailable"
                       ELSE /\ quote_result.failures # <<>>
                            /\ LastFailure.provider = chain[Len(chain)])
    /\ [][(/\ Called /\ Failed /\ quote_result.failures # <<>>
           /\ Called' /\ Failed' /\ quote_result'.failures # <<>>
           /\ LastFailure.kind = LastFailure'.kind
           /\ LastFailure.message = LastFailure'.message)
             => quote_result'.kind = quote_result.kind]_vars

\* a provider name the service does not know was requested, and the only
\* provider left in the chain reported the symbol as not found
C30_Witness ==
    /\ Called
    /\ quote_result.requested = "tcmb"
    /\ quote_result.use_fallback
    /\ quote_result.kind = "NotFound"
    /\ quote_result.calls = <<"alpha_vantage">>

====
